---------------------------- MODULE Spec2Model ----------------------------
(***************************************************************************)
(* Model of src/ap.py: the credential store (users), the survey            *)
(* repository (responses, lideranca_responses) with its cached loads, the  *)
(* two statistics functions, and the script runs of the pages (login,      *)
(* navigation, administration) that call them.                             *)
(*                                                                         *)
(* A database call is modelled at the level the source is written at: a    *)
(* cursor, a list of statements run inside one transaction, then commit or *)
(* rollback.  Every statement and the commit may raise; that is the        *)
(* nondeterministic input `out` of each write operation.  conn.query is a  *)
(* read of the committed tables.                                           *)
(***************************************************************************)
EXTENDS Integers, Sequences, FiniteSets, TLC

\* ------------------------------------------------------------------ bounds
\* largest value of the users.id SERIAL the model hands out
MaxUserId == 4
\* number of uuid4() session ids the model hands out
MaxUuid == 2

\* longest DataFrames handed to the two statistics functions
MaxHpoRows == 2
MaxLidRows == 3

\* ------------------------------------------------------------ input samples
Sessions == {"s1", "s2"}

\* usernames and passwords typed into the forms ("" is what an empty text
\* input returns; the login form is also tried with it)
Usernames == {"admin", "ana"}
Passwords == {"admin123", "pw"}

\* ---------------------------------------------------------------- helpers
\* Python None / an empty fetchone()
None == [id |-> 0, username |-> "None", role |-> "None"]

\* hashlib.sha256(password.encode()).hexdigest(): a deterministic digest,
\* distinct from its argument; collisions of SHA-256 are not modelled
hash_password(password) == <<"sha256", password>>

\* the options of the selectbox "Tipo de usuário" of add_user_form, the only
\* caller of add_user
RoleOptionsFreeText == {"gestor", "administrador", "convidado"}

RoleOptions == {"gestor", "administrador"}

\* default_users of init_db, in list order
default_users ==
    << [username |-> "admin",  password |-> hash_password("admin123"),
        role |-> "administrador"],
       [username |-> "gestor", password |-> hash_password("gestor123"),
        role |-> "gestor"] >>

\* ways a write operation can go: get_db_cursor returned (None, None), the
\* k-th statement raised (execute_k), commit raised, or nothing raised
NoCursor == <<"no_cursor", 0>>
CommitFails == <<"commit", 0>>
Ok == <<"ok", 0>>
ExecuteFails(k) == <<"execute", k>>

\* ------------------------------------------------------------- SQL pieces
\* INSERT INTO users (username, password, role) VALUES (..)
\* ON CONFLICT (username) DO NOTHING, with id taken from the SERIAL
InsertUserKeepAll(tbl, id, username, password, role) ==
    tbl \cup {[id |-> id, username |-> username,
               password |-> password, role |-> role]}

InsertUser(tbl, id, username, password, role) ==
    IF \E r \in tbl : r.username = username
    THEN tbl
    ELSE tbl \cup {[id |-> id, username |-> username,
                    password |-> password, role |-> role]}

\* cursor.rowcount after the INSERT: rows actually inserted
RowCount(before, after) == Cardinality(after) - Cardinality(before)

\* the SERIAL after the INSERT: advanced when a row was inserted
NextSerial(serial, before, after) == serial + RowCount(before, after)

\* DELETE FROM users WHERE id = %s
DeleteUserRow(tbl, user_id) == {r \in tbl : r.id # user_id}

\* conn.commit(): the transaction's working state becomes the database;
\* conn.rollback(): the working state is dropped
Commit(db, tx) == tx

RollbackKeepsWork(db, tx) == tx

Rollback(db, tx) == db


\* ------------------------------------------------------------------ state
VARIABLES
    schema,               \* names of the tables that exist in the database
    users,                \* rows of table users
    user_serial,          \* next value of users.id (SERIAL)
    responses,            \* rows of table responses, in insertion order
    lideranca_responses,  \* rows of table lideranca_responses, in insertion order
    uuid_count,           \* session ids uuid4() has handed out so far
    cache_data,           \* st.cache_data: per cached function, <<>> or <<its result>>
    session_state,        \* st.session_state of every browser session
    loading,              \* per session: the cached load it is in the middle of
    cursor_obj,           \* the cursor the call in `last` got from get_db_cursor
    widgets,              \* per session: the widgets of the page it is looking at
    run,                  \* history: the script run that made the call in `last`
    init_runs,            \* history: per session, init_db runs since its state was empty
    added,                \* history: accounts add_user created that are still stored
    cleared,              \* history: delete_all_responses returned True, no submit since
    last                  \* history: the call that returned last, and what it returned

vars == <<schema, users, user_serial, responses, lideranca_responses, uuid_count,
          cache_data, session_state, loading, cursor_obj, widgets, run,
          init_runs, added, cleared, last>>

userVars == <<schema, users, user_serial, added>>
surveyVars == <<responses, lideranca_responses, uuid_count, cleared>>
cacheVars == <<cache_data, loading>>
pageVars == <<widgets, run, init_runs>>

\* the committed database, as one value a transaction works on
DB == [schema |-> schema, users |-> users, serial |-> user_serial,
       responses |-> responses, lideranca_responses |-> lideranca_responses]

\* st.session_state of a session that has just connected (no keys set;
\* line 816 then sets logged_in to False)
EmptySessionState == [db_initialized |-> FALSE, logged_in |-> FALSE, user |-> None]

\* the options of the sidebar selectbox "Navegação" (main_app); "Questionario"
\* and "Administracao" stand for Questionário and Administração
MenuOptionsForAll(user_role) ==
    <<"Questionario HPO", "Questionario Lideranca", "Relatorios", "Administracao">>

MenuOptions(user_role) ==
    IF user_role = "administrador"
    THEN <<"Questionario HPO", "Questionario Lideranca", "Relatorios", "Administracao">>
    ELSE <<"Questionario HPO", "Questionario Lideranca", "Relatorios">>

\* the widgets of a session whose page shows none of the modelled ones: the
\* selectbox is on its first option, and neither the button "Apagar Todos os
\* Dados HPO" nor the checkbox "Confirmar exclusão ..." was rendered
NoWidgets == [pc |-> "idle", choice |-> "Questionario HPO",
              delete_all_button |-> FALSE, confirm |-> FALSE]

\* no run of the session has reached init_db's statements since its
\* st.session_state was empty; in both counts 2 stands for "more than once"
NoInitRuns == [work |-> 0, commits |-> 0]

\* a call that no page made
NoRun == [s |-> "none", widget |-> "none"]

\* a session that is not inside a cached load
Idle == [pc |-> "idle", df |-> <<>>, stale |-> FALSE]

\* ------------------------------------------------------------ get_db_cursor
\* get_db_cursor(): (None, None) when conn is None or cursor() raises, else
\* the session and a new, open cursor
get_db_cursor(out) == IF out = NoCursor THEN "none" ELSE "open"

\* c.close(), as in `finally: if c: c.close()`
Close(c) == IF c = "open" THEN "closed" ELSE c

\* ------------------------------------------------------------------- init_db
AllTables == {"users", "responses", "lideranca_responses"}

\* the k-th CREATE TABLE IF NOT EXISTS of init_db, in source order
CreatedTable(k) ==
    CASE k = 1 -> "users" [] k = 2 -> "responses" [] OTHER -> "lideranca_responses"

\* the working state of init_db's transaction after its first k statements:
\* three CREATE TABLE IF NOT EXISTS, then one INSERT .. ON CONFLICT DO NOTHING
\* for each of default_users
RECURSIVE InitDbWork(_, _)
InitDbWork(db, k) ==
    IF k = 0 THEN db
    ELSE LET w == InitDbWork(db, k - 1) IN
         IF k <= 3
         THEN [w EXCEPT !.schema = @ \cup {CreatedTable(k)}]
         ELSE LET d == default_users[k - 3]
                  tbl == InsertUser(w.users, w.serial, d.username, d.password, d.role)
              IN [w EXCEPT !.users = tbl,
                           !.serial = NextSerial(w.serial, w.users, tbl)]

InitDbStatements == 3 + Len(default_users)

\* the database a transaction leaves behind
SetDB(db) ==
    /\ schema' = db.schema
    /\ users' = db.users
    /\ user_serial' = db.serial
    /\ responses' = db.responses
    /\ lideranca_responses' = db.lideranca_responses

\* st.session_state.db_initialized = True, after the commit
KeepUninitialized(ss, s) == ss

SetInitialized(ss, s) == [ss EXCEPT ![s].db_initialized = TRUE]

init_db(s, out) ==
    /\ ~session_state[s].db_initialized
    /\ \/ /\ out = NoCursor
          /\ SetDB(DB)
          /\ UNCHANGED session_state
       \/ /\ \E k \in 1..InitDbStatements :
                /\ out = ExecuteFails(k)
                /\ SetDB(Rollback(DB, InitDbWork(DB, k - 1)))
          /\ UNCHANGED session_state
       \/ /\ out = CommitFails
          /\ SetDB(Rollback(DB, InitDbWork(DB, InitDbStatements)))
          /\ UNCHANGED session_state
       \/ /\ out = Ok
          /\ InitDbWork(DB, InitDbStatements).serial <= MaxUserId + 1
          /\ SetDB(Commit(DB, InitDbWork(DB, InitDbStatements)))
          /\ session_state' = SetInitialized(session_state, s)
    /\ cursor_obj' = Close(get_db_cursor(out))
    /\ last' = [op |-> "init_db", out |-> out, ret |-> (out = Ok)]
    /\ UNCHANGED <<uuid_count, cleared, cacheVars, added>>

\* ------------------------------------------------------------ check_login
\* SELECT id, username, role FROM users WHERE username = %s AND password = %s
\* with the hashed password, then fetchone(): the identity or None
check_login_plain(tbl, username, password) ==
    LET found == {r \in tbl : r.username = username /\ r.password = password}
    IN IF found = {} THEN None
       ELSE LET r == CHOOSE r \in found : TRUE
            IN [id |-> r.id, username |-> r.username, role |-> r.role]

check_login(tbl, username, password) ==
    LET hashed_password == hash_password(password)
        found == {r \in tbl : r.username = username /\ r.password = hashed_password}
    IN IF found = {} THEN None
       ELSE LET r == CHOOSE r \in found : TRUE
            IN [id |-> r.id, username |-> r.username, role |-> r.role]

\* the cursor of check_login when it returns: c.close() precedes both
\* returns of the try block; the except block returns without it
CheckLoginCursor(out) ==
    IF out = Ok THEN Close(get_db_cursor(out)) ELSE get_db_cursor(out)

\* a call of check_login: a cursor of None or a raising query returns None
check_login_call(username, password, out) ==
    /\ out \in {NoCursor, ExecuteFails(1), Ok}
    /\ out = Ok => "users" \in schema
    /\ last' = [op |-> "check_login", out |-> out,
                ret |-> IF out = Ok THEN check_login(users, username, password) ELSE None,
                username |-> username, password |-> password]
    /\ cursor_obj' = CheckLoginCursor(out)
    /\ UNCHANGED <<userVars, surveyVars, cacheVars, session_state>>

\* login_page, form submitted: empty fields are rejected before any store
\* access; a cursor of None or a raising query makes check_login return None
login_page(s, username, password, out) ==
    /\ ~session_state[s].logged_in
    /\ widgets[s].pc = "idle"
    /\ username # "" /\ password # ""
    /\ out \in {NoCursor, ExecuteFails(1), Ok}
    /\ out = Ok => "users" \in schema
    /\ LET user == IF out = Ok THEN check_login(users, username, password) ELSE None
       IN /\ session_state' =
                IF user # None
                THEN [session_state EXCEPT ![s].user = user, ![s].logged_in = TRUE]
                ELSE session_state
          /\ last' = [op |-> "check_login", out |-> out, ret |-> user,
                      username |-> username, password |-> password]
    /\ cursor_obj' = CheckLoginCursor(out)
    /\ run' = [s |-> s, widget |-> "login_form"]
    /\ widgets' = [widgets EXCEPT ![s] = NoWidgets]
    /\ UNCHANGED <<userVars, surveyVars, cacheVars, init_runs>>

\* main_app, button "Sair": every key of st.session_state is deleted
logout(s) ==
    /\ session_state[s].logged_in
    /\ widgets[s].pc = "idle"
    /\ session_state' = [session_state EXCEPT ![s] = EmptySessionState]
    /\ last' = [op |-> "logout", out |-> Ok, ret |-> TRUE]
    /\ cursor_obj' = "none"
    /\ run' = [s |-> s, widget |-> "Sair"]
    /\ widgets' = [widgets EXCEPT ![s] = NoWidgets]
    /\ init_runs' = [init_runs EXCEPT ![s] = NoInitRuns]
    /\ UNCHANGED <<userVars, surveyVars, cacheVars>>

\* ----------------------------------------------------------------- add_user
\* the working state of add_user's transaction after its INSERT
AddUserWork(db, username, password, role) ==
    LET tbl == InsertUser(db.users, db.serial, username, hash_password(password), role)
    IN [db EXCEPT !.users = tbl, !.serial = NextSerial(db.serial, db.users, tbl)]

add_user(username, password, role, out) ==
    /\ out \in {NoCursor, ExecuteFails(1), CommitFails, Ok}
    /\ out \in {CommitFails, Ok} => "users" \in schema
    /\ LET work == AddUserWork(DB, username, password, role)
           success == out = Ok /\ RowCount(users, work.users) > 0
       IN /\ out = Ok => work.serial <= MaxUserId + 1
          /\ SetDB(CASE out = Ok -> Commit(DB, work)
                     [] out = CommitFails -> Rollback(DB, work)
                     [] OTHER -> Rollback(DB, DB))
          /\ added' = IF success
                      THEN added \cup {[id |-> user_serial, username |-> username,
                                        password |-> password, role |-> role]}
                      ELSE added
          /\ last' = [op |-> "add_user", out |-> out, ret |-> success,
                      username |-> username, password |-> password, role |-> role]
    /\ cursor_obj' = Close(get_db_cursor(out))
    /\ UNCHANGED <<uuid_count, cleared, cacheVars, session_state>>

\* -------------------------------------------------------------- delete_user
DeleteUserWork(db, user_id) ==
    [db EXCEPT !.users = DeleteUserRow(db.users, user_id)]

delete_user(user_id, out) ==
    /\ out \in {NoCursor, ExecuteFails(1), CommitFails, Ok}
    /\ out \in {CommitFails, Ok} => "users" \in schema
    /\ LET work == DeleteUserWork(DB, user_id)
       IN /\ SetDB(CASE out = Ok -> Commit(DB, work)
                     [] out = CommitFails -> Rollback(DB, work)
                     [] OTHER -> Rollback(DB, DB))
          /\ added' = IF out = Ok THEN {a \in added : a.id # user_id} ELSE added
          /\ last' = [op |-> "delete_user", out |-> out, ret |-> (out = Ok),
                      user_id |-> user_id]
    /\ cursor_obj' = Close(get_db_cursor(out))
    /\ UNCHANGED <<uuid_count, cleared, cacheVars, session_state>>

\* -------------------------------------------------------- survey repository
\* the 14 score columns of table responses, in the order of the INSERT's
\* column list
HpoColumns == <<"a1", "a2", "b1", "b2", "c1", "c2", "d1", "d2",
                "e1", "e2", "f1", "f2", "g1", "g2">>

ColumnIndex(col) == CHOOSE i \in 1..Len(HpoColumns) : HpoColumns[i] = col

HpoColumnSet == {HpoColumns[i] : i \in 1..Len(HpoColumns)}

\* str(uuid.uuid4()): the n-th session id handed out; two calls never
\* return the same id
Uuid4(n) == <<"uuid", n>>

\* what the survey forms submit: the 14 slider values (each 1..5) with the
\* comment; the second sample has a different value in neighbouring columns
HpoInputs ==
    { [scores |-> [i \in 1..14 |-> 5], comentario |-> "ok"],
      [scores |-> [i \in 1..14 |-> ((i * 3) % 5) + 1], comentario |-> ""] }

\* the row INSERT INTO responses (a1, .., g2, comentario, session_id) stores
\* for tuple(responses) + (comentario, session_id)
HpoRowShifted(scores, comentario, session_id) ==
    [col \in HpoColumnSet \cup {"comentario", "session_id"} |->
        CASE col = "comentario" -> comentario
          [] col = "session_id" -> session_id
          [] OTHER -> scores[(ColumnIndex(col) % Len(HpoColumns)) + 1]]

HpoRow(scores, comentario, session_id) ==
    [col \in HpoColumnSet \cup {"comentario", "session_id"} |->
        CASE col = "comentario" -> comentario
          [] col = "session_id" -> session_id
          [] OTHER -> scores[ColumnIndex(col)]]

\* f"q{i}" for the positions enumerate(question_data, 1) yields
QNames == <<"q1", "q2", "q3", "q4", "q5", "q6", "q7", "q8">>

QIdAsSupplied(i, question_id) == question_id

QId(i, question_id) == QNames[i]

\* answers as survey_lideranca_page or any other caller may pass them:
\* (question_id, response, response_time); "NAO" stands for the form's NÃO
Ans1 == [question_id |-> "q1", response |-> "SIM", response_time |-> 1]
Ans2 == [question_id |-> "q7", response |-> "NAO", response_time |-> 2]

LidInputs == { <<>>, <<Ans1>>, <<Ans1, Ans2>>, <<Ans2, Ans2, Ans1>> }

\* the row the i-th INSERT INTO lideranca_responses stores
LidRow(session_id, i, a) ==
    [session_id |-> session_id, question_id |-> QId(i, a.question_id),
     response |-> a.response, response_time |-> a.response_time]

\* SELECT * FROM <table> ORDER BY timestamp DESC: rows are kept in insertion
\* order, which is the order of their DEFAULT CURRENT_TIMESTAMP
RECURSIVE OrderByTimestampDesc(_)
OrderByTimestampDesc(rows) ==
    IF rows = <<>> THEN <<>>
    ELSE <<rows[Len(rows)]>> \o OrderByTimestampDesc(SubSeq(rows, 1, Len(rows) - 1))

\* a DataFrame a load returns; stale is history, not program state: a write
\* to the table was committed after this result was queried
Frame(rows) == [df |-> rows, stale |-> FALSE]

\* the loads of other sessions that are between their query and their
\* return when a write commits hold a result from before it; fns are the
\* cached functions that read a table the write changes
MarkStale(fns) ==
    [s \in Sessions |->
        IF loading[s].pc \in fns THEN [loading[s] EXCEPT !.stale = TRUE] ELSE loading[s]]

\* -------------------------------------------------------- save_hpo_response
SaveHpoWork(db, scores, comentario, session_id) ==
    [db EXCEPT !.responses = Append(@, HpoRow(scores, comentario, session_id))]

\* the two functions under @st.cache_data(ttl=300), and the table each reads
CachedFunctions == {"load_hpo_responses", "load_lideranca_responses"}

\* <cached function>.clear(): that function's entry is dropped
ClearCache(cache, fn) == [cache EXCEPT ![fn] = <<>>]

save_hpo_response(in, out) ==
    /\ out \in {NoCursor, ExecuteFails(1), CommitFails, Ok}
    /\ out \in {CommitFails, Ok} => "responses" \in schema
    /\ IF out = NoCursor
       THEN /\ SetDB(DB)
            /\ UNCHANGED <<uuid_count, cleared, cacheVars>>
       ELSE /\ uuid_count < MaxUuid
            /\ uuid_count' = uuid_count + 1
            /\ LET session_id == Uuid4(uuid_count + 1)
                   work == SaveHpoWork(DB, in.scores, in.comentario, session_id)
               IN SetDB(CASE out = Ok -> Commit(DB, work)
                          [] out = CommitFails -> Rollback(DB, work)
                          [] OTHER -> Rollback(DB, DB))
            /\ cache_data' = IF out = Ok
                              THEN ClearCache(cache_data, "load_hpo_responses")
                              ELSE cache_data
            /\ loading' = IF out = Ok THEN MarkStale({"load_hpo_responses"}) ELSE loading
            /\ cleared' = IF out = Ok THEN FALSE ELSE cleared
    /\ last' = [op |-> "save_hpo_response", out |-> out, ret |-> (out = Ok), in |-> in]
    /\ cursor_obj' = Close(get_db_cursor(out))
    /\ UNCHANGED <<session_state, added>>

\* -------------------------------------------------- save_lideranca_response
\* the working state after the first k INSERTs of the loop
RECURSIVE SaveLidWork(_, _, _, _)
SaveLidWork(db, question_data, session_id, k) ==
    IF k = 0 THEN db
    ELSE LET w == SaveLidWork(db, question_data, session_id, k - 1)
         IN [w EXCEPT !.lideranca_responses =
                 Append(@, LidRow(session_id, k, question_data[k]))]

save_lideranca_response(question_data, out) ==
    /\ out \in {NoCursor, CommitFails, Ok}
               \cup {ExecuteFails(k) : k \in 1..Len(question_data)}
    /\ out \in {CommitFails, Ok} => "lideranca_responses" \in schema
    /\ IF out = NoCursor
       THEN /\ SetDB(DB)
            /\ UNCHANGED <<uuid_count, cleared, cacheVars>>
       ELSE /\ uuid_count < MaxUuid
            /\ uuid_count' = uuid_count + 1
            /\ LET session_id == Uuid4(uuid_count + 1)
                   done == IF out[1] = "execute" THEN out[2] - 1 ELSE Len(question_data)
                   work == SaveLidWork(DB, question_data, session_id, done)
               IN SetDB(IF out = Ok THEN Commit(DB, work) ELSE Rollback(DB, work))
            /\ cache_data' = IF out = Ok
                              THEN ClearCache(cache_data, "load_lideranca_responses")
                              ELSE cache_data
            /\ loading' = IF out = Ok
                           THEN MarkStale({"load_lideranca_responses"}) ELSE loading
            /\ cleared' = IF out = Ok THEN FALSE ELSE cleared
    /\ last' = [op |-> "save_lideranca_response", out |-> out, ret |-> (out = Ok),
                in |-> question_data]
    /\ cursor_obj' = Close(get_db_cursor(out))
    /\ UNCHANGED <<session_state, added>>

\* ----------------------------------------------------- delete_all_responses
\* the working state after the first k of DELETE FROM responses,
\* DELETE FROM lideranca_responses
DeleteAllWork(db, k) ==
    [db EXCEPT !.responses = IF k >= 1 THEN <<>> ELSE @,
               !.lideranca_responses = IF k >= 2 THEN <<>> ELSE @]

\* st.cache_data.clear(): the entries of every cached function are dropped
ClearOnlyHpo(cache) == [cache EXCEPT !["load_hpo_responses"] = <<>>]

ClearAllCaches(cache) == [fn \in DOMAIN cache |-> <<>>]

delete_all_responses(out) ==
    /\ out \in {NoCursor, ExecuteFails(1), ExecuteFails(2), CommitFails, Ok}
    /\ out \in {ExecuteFails(2), CommitFails, Ok} => "responses" \in schema
    /\ out \in {CommitFails, Ok} => "lideranca_responses" \in schema
    /\ LET done == CASE out = NoCursor -> 0
                     [] out[1] = "execute" -> out[2] - 1
                     [] OTHER -> 2
           work == DeleteAllWork(DB, done)
       IN SetDB(IF out = Ok THEN Commit(DB, work) ELSE Rollback(DB, work))
    /\ cache_data' = IF out = Ok THEN ClearAllCaches(cache_data) ELSE cache_data
    /\ loading' = IF out = Ok THEN MarkStale(CachedFunctions) ELSE loading
    /\ cleared' = IF out = Ok THEN TRUE ELSE cleared
    /\ last' = [op |-> "delete_all_responses", out |-> out, ret |-> (out = Ok),
                had |-> {fn \in CachedFunctions :
                            cache_data[fn] # <<>> /\ cache_data[fn][1].df # <<>>}]
    /\ cursor_obj' = Close(get_db_cursor(out))
    /\ UNCHANGED <<uuid_count, session_state, added>>

\* ------------------------------------------------------------- cached loads
TableOf(fn) == IF fn = "load_hpo_responses" THEN "responses" ELSE "lideranca_responses"

\* the body of a cached load: conn.query(SELECT * .. ORDER BY timestamp DESC),
\* or an empty DataFrame when the query raises
Query(fn, out) ==
    IF out # Ok THEN <<>>
    ELSE IF fn = "load_hpo_responses"
         THEN OrderByTimestampDesc(responses)
         ELSE OrderByTimestampDesc(lideranca_responses)

\* what a call of the cached function fn returns when it starts now and its
\* query does not raise
LoadResult(fn) ==
    IF cache_data[fn] # <<>> THEN cache_data[fn][1].df ELSE Query(fn, Ok)

\* a call of a cached function that no other call overlaps: a hit returns the
\* entry; a miss runs the body and stores what it returns
cached_load(fn, out) ==
    /\ out \in {ExecuteFails(1), Ok}
    /\ IF cache_data[fn] # <<>>
       THEN /\ out = Ok
            /\ last' = [op |-> fn, out |-> out, ret |-> cache_data[fn][1].df,
                        hit |-> TRUE, stale |-> cache_data[fn][1].stale]
            /\ UNCHANGED cache_data
       ELSE /\ out = Ok => TableOf(fn) \in schema
            /\ cache_data' = [cache_data EXCEPT ![fn] = <<Frame(Query(fn, out))>>]
            /\ last' = [op |-> fn, out |-> out, ret |-> Query(fn, out),
                        hit |-> FALSE, stale |-> FALSE]
    /\ cursor_obj' = "none"
    /\ UNCHANGED <<userVars, surveyVars, session_state, loading>>

\* the same call in two steps, as the script thread of session s runs it next
\* to the threads of the other sessions: first the lookup and, on a miss, the
\* query; ...
load_begin(s, fn, out) ==
    /\ loading[s].pc = "idle"
    /\ out \in {ExecuteFails(1), Ok}
    /\ IF cache_data[fn] # <<>>
       THEN /\ out = Ok
            /\ last' = [op |-> fn, out |-> out, ret |-> cache_data[fn][1].df,
                        hit |-> TRUE, stale |-> cache_data[fn][1].stale]
            /\ cursor_obj' = "none"
            /\ UNCHANGED loading
       ELSE /\ out = Ok => TableOf(fn) \in schema
            /\ loading' = [loading EXCEPT ![s] =
                              [pc |-> fn, df |-> Query(fn, out), stale |-> FALSE]]
            /\ UNCHANGED <<last, cursor_obj>>
    /\ UNCHANGED <<userVars, surveyVars, session_state, cache_data>>

\* ... then the decorator stores the body's result and the call returns it
load_end(s) ==
    /\ loading[s].pc # "idle"
    /\ cache_data' = [cache_data EXCEPT ![loading[s].pc] =
                         <<[df |-> loading[s].df, stale |-> loading[s].stale]>>]
    /\ last' = [op |-> loading[s].pc, out |-> Ok, ret |-> loading[s].df,
                hit |-> FALSE, stale |-> FALSE]
    /\ loading' = [loading EXCEPT ![s] = Idle]
    /\ cursor_obj' = "none"
    /\ UNCHANGED <<userVars, surveyVars, session_state>>

\* ttl=300: an entry older than five minutes is dropped
expire(fn) ==
    /\ cache_data[fn] # <<>>
    /\ cache_data' = [cache_data EXCEPT ![fn] = <<>>]
    /\ UNCHANGED <<userVars, surveyVars, session_state, loading, last, cursor_obj>>

\* ------------------------------------------------------------- script runs
\* One interaction of a session with a widget makes the script run from the
\* top: init_db(), then login_page() or main_app() with the page of the
\* selectbox.  A run that calls a CRUD function is two steps of the
\* session's thread: the handler with its call, then the rest of the page.

\* line 810 in a run of session s whose db_initialized is not set
run_init_db(s, out) ==
    /\ init_db(s, out)
    /\ run' = [s |-> s, widget |-> "none"]
    /\ UNCHANGED widgets

\* history: the run of session s reached init_db's statements (work), and
\* its commit returned (commits)
CountInitRun(s, out) ==
    init_runs' = [init_runs EXCEPT ![s] =
                     [work |-> IF out = NoCursor THEN @.work
                               ELSE IF @.work = 0 THEN 1 ELSE 2,
                      commits |-> IF out # Ok THEN @.commits
                                  ELSE IF @.commits = 0 THEN 1 ELSE 2]]

\* the query of a cached load inside a page: it raises, and the load returns
\* an empty DataFrame, exactly when its table does not exist
PageQuery(fn) == Query(fn, IF TableOf(fn) \in schema THEN Ok ELSE ExecuteFails(1))

\* st.cache_data after load_hpo_responses() and load_lideranca_responses()
LoadBoth(cache) ==
    [fn \in CachedFunctions |->
        IF cache[fn] # <<>> THEN cache[fn] ELSE <<Frame(PageQuery(fn))>>]

\* admin_page, tab2: hpo_df
HpoDf(cache) == LoadBoth(cache)["load_hpo_responses"][1].df

\* the widgets a page leaves on the screen when no button of it reads True:
\* admin_page renders the button "Apagar Todos os Dados HPO" when hpo_df is
\* not empty, and the checkbox only inside the button's branch
RenderedWidgets(choice, cache) ==
    [pc |-> "idle", choice |-> choice,
     delete_all_button |-> (choice = "Administracao" /\ HpoDf(cache) # <<>>),
     confirm |-> FALSE]

\* st.cache_data after the page: admin_page calls both cached loads
RenderedCache(choice, cache) ==
    IF choice = "Administracao" THEN LoadBoth(cache) ELSE cache

\* main_app is running for session s with this page selected
OnPage(s, choice) ==
    /\ session_state[s].logged_in
    /\ widgets[s].pc = "idle"
    /\ widgets[s].choice = choice

\* the rest of a run whose handler called a CRUD function (or the rerun that
\* st.rerun() starts after it): the page is rendered
render(s) ==
    /\ widgets[s].pc = "render"
    /\ widgets' = [widgets EXCEPT ![s] = RenderedWidgets(widgets[s].choice, cache_data)]
    /\ cache_data' = RenderedCache(widgets[s].choice, cache_data)
    /\ UNCHANGED <<userVars, surveyVars, session_state, loading, cursor_obj,
                   run, init_runs, last>>

\* main_app: the selectbox "Navegação" is set to one of its options
select_page(s, choice) ==
    /\ session_state[s].logged_in
    /\ widgets[s].pc = "idle"
    /\ \E i \in DOMAIN MenuOptions(session_state[s].user.role) :
          MenuOptions(session_state[s].user.role)[i] = choice
    /\ widgets' = [widgets EXCEPT ![s] = RenderedWidgets(choice, cache_data)]
    /\ cache_data' = RenderedCache(choice, cache_data)
    /\ run' = [s |-> s, widget |-> "Navegacao"]
    /\ last' = [op |-> "main_app", out |-> Ok, ret |-> TRUE]
    /\ cursor_obj' = "none"
    /\ UNCHANGED <<userVars, surveyVars, session_state, loading, init_runs>>

\* survey_hpo_page: the form is submitted
survey_hpo_page(s, in, out) ==
    /\ OnPage(s, "Questionario HPO")
    /\ save_hpo_response(in, out)
    /\ run' = [s |-> s, widget |-> "hpo_survey"]
    /\ UNCHANGED <<widgets, init_runs>>

\* admin_page, tab1: add_user_form is submitted
admin_add_user(s, new_username, new_password, new_role, out) ==
    /\ OnPage(s, "Administracao")
    /\ add_user(new_username, new_password, new_role, out)
    /\ run' = [s |-> s, widget |-> "add_user_form"]
    /\ widgets' = [widgets EXCEPT ![s].pc = "render"]
    /\ UNCHANGED init_runs

\* admin_page, tab1: the ids of the rows of list_users() that get a delete
\* button, in a run of a session logged in as `user`
DeleteButtonsOnAllRows(tbl, user) == {r.id : r \in tbl}

DeleteButtons(tbl, user) == {r.id : r \in {x \in tbl : x.username # user.username}}

\* admin_page, tab1: the button del_<user_id> is clicked
admin_delete_user(s, user_id, out) ==
    /\ OnPage(s, "Administracao")
    /\ "users" \in schema
    /\ user_id \in DeleteButtons(users, session_state[s].user)
    /\ delete_user(user_id, out)
    /\ run' = [s |-> s, widget |-> "del"]
    /\ widgets' = [widgets EXCEPT ![s].pc = "render"]
    /\ UNCHANGED init_runs

\* what a widget of tab2 reads in the run that `event` triggered: a button
\* reads True only in the run its click triggered; a checkbox reads its
\* stored value, which is False until it is ticked
ButtonValue(event) == event = "delete_all_button"
CheckboxValue(event) == event = "confirm"

\* admin_page, tab2: the run triggered by a click on the button "Apagar Todos
\* os Dados HPO" or by a tick of the checkbox "Confirmar exclusão ..."
admin_tab2(s, event, out) ==
    /\ OnPage(s, "Administracao")
    /\ widgets[s][event]
    /\ run' = [s |-> s, widget |-> event]
    /\ UNCHANGED init_runs
    /\ LET hpo_df == HpoDf(cache_data)
           button == hpo_df # <<>> /\ ButtonValue(event)
           checkbox == button /\ CheckboxValue(event)
       IN IF checkbox
          THEN /\ delete_all_responses(out)
               /\ widgets' = [widgets EXCEPT ![s].pc = "render"]
          ELSE /\ cache_data' = LoadBoth(cache_data)
               /\ widgets' = [widgets EXCEPT ![s] =
                                 [pc |-> "idle", choice |-> "Administracao",
                                  delete_all_button |-> hpo_df # <<>>,
                                  confirm |-> button]]
               /\ last' = [op |-> "admin_page", out |-> Ok, ret |-> TRUE]
               /\ cursor_obj' = "none"
               /\ UNCHANGED <<userVars, surveyVars, session_state, loading>>

\* ------------------------------------------------------------- statistics
\* a missing value (NaN) in an integer column, as dropna() sees it
NaN == -1

\* None in a text column
PyNone == "<None>"

RECURSIVE SelectNotNa(_)
SelectNotNa(values) ==
    IF values = <<>> THEN <<>>
    ELSE (IF Head(values) = NaN THEN <<>> ELSE <<Head(values)>>)
             \o SelectNotNa(Tail(values))

\* df[col].dropna().tolist()
DropNaKeepsAll(df, col) == [i \in 1..Len(df) |-> df[i][col]]

DropNa(df, col) == SelectNotNa([i \in 1..Len(df) |-> df[i][col]])

\* the dict domains of calculate_hpo_stats, in source order
domains ==
    << [domain |-> "A", columns |-> <<"a1", "a2">>],
       [domain |-> "B", columns |-> <<"b1", "b2">>],
       [domain |-> "C", columns |-> <<"c1", "c2">>],
       [domain |-> "D", columns |-> <<"d1", "d2">>],
       [domain |-> "E", columns |-> <<"e1", "e2">>],
       [domain |-> "F", columns |-> <<"f1", "f2">>],
       [domain |-> "G", columns |-> <<"g1", "g2">>] >>

\* domain_scores after the loop over the domain's columns
RECURSIVE DomainScores(_, _, _)
DomainScores(df, columns, k) ==
    IF k = 0 THEN <<>>
    ELSE DomainScores(df, columns, k - 1) \o DropNa(df, columns[k])

RECURSIVE SumSeq(_)
SumSeq(xs) == IF xs = <<>> THEN 0 ELSE Head(xs) + SumSeq(Tail(xs))

RECURSIVE MaxSeq(_)
MaxSeq(xs) ==
    IF Len(xs) = 1 THEN xs[1]
    ELSE LET m == MaxSeq(Tail(xs)) IN IF Head(xs) > m THEN Head(xs) ELSE m

RECURSIVE MinSeq(_)
MinSeq(xs) ==
    IF Len(xs) = 1 THEN xs[1]
    ELSE LET m == MinSeq(Tail(xs)) IN IF Head(xs) < m THEN Head(xs) ELSE m

\* sum(domain_scores) / len(domain_scores), kept as the exact quotient
Mean(xs) == [num |-> SumSeq(xs), den |-> Len(xs)]

calculate_hpo_stats(df) ==
    IF df = <<>> THEN [d \in {} |-> {}]
    ELSE LET scores(k) == DomainScores(df, domains[k].columns, Len(domains[k].columns))
             with == {k \in 1..Len(domains) : scores(k) # <<>>}
             index(d) == CHOOSE k \in with : domains[k].domain = d
         IN [d \in {domains[k].domain : k \in with} |->
                [mean |-> Mean(scores(index(d))),
                 count |-> Len(scores(index(d))),
                 max |-> MaxSeq(scores(index(d))),
                 min |-> MinSeq(scores(index(d)))]]

\* .astype(str): None becomes the text None
AsStr(v) == IF v = PyNone THEN "None" ELSE v

\* .str.upper() on the answers the model uses
UpperAsIs(v) == v

Upper(v) ==
    CASE v \in {"SIM", "sim", "Sim"} -> "SIM"
      [] v \in {"NAO", "nao", "Nao"} -> "NAO"
      [] v \in {"None", "NONE"} -> "NONE"
      [] OTHER -> v

\* df[df['question_id'] == question]['response'].astype(str).str.upper()
\*     .tolist(); a comparison with None selects no row
RECURSIVE QuestionResponses(_, _)
QuestionResponses(df, question) ==
    IF df = <<>> \/ question = PyNone THEN <<>>
    ELSE (IF Head(df).question_id = question
          THEN <<Upper(AsStr(Head(df).response))>> ELSE <<>>)
             \o QuestionResponses(Tail(df), question)

\* pd.Series(responses).value_counts().to_dict()
ValueCounts(xs) ==
    [v \in {xs[i] : i \in 1..Len(xs)} |-> Cardinality({i \in 1..Len(xs) : xs[i] = v})]

calculate_lideranca_stats(df) ==
    IF df = <<>> THEN [q \in {} |-> {}]
    ELSE LET unique == {df[i].question_id : i \in 1..Len(df)}
         IN [question \in {q \in unique : QuestionResponses(df, q) # <<>>} |->
                [total |-> Len(QuestionResponses(df, question)),
                 distribution |-> ValueCounts(QuestionResponses(df, question))]]

\* rows of responses with missing values: a1, a2 and the G columns vary
StatsHpoRow(a1, a2, g) ==
    [col \in HpoColumnSet \cup {"comentario", "session_id"} |->
        CASE col = "a1" -> a1
          [] col = "a2" -> a2
          [] col \in {"g1", "g2"} -> g
          [] col = "comentario" -> ""
          [] col = "session_id" -> Uuid4(0)
          [] OTHER -> NaN]

StatsHpoRows == {StatsHpoRow(a1, a2, g) : a1 \in {NaN, 4, 2}, a2 \in {NaN, 5, 3}, g \in {NaN, 1}}

StatsLidRows ==
    {[session_id |-> Uuid4(0), question_id |-> q, response |-> r, response_time |-> 1] :
        q \in {"q1", "q2"}, r \in {"SIM", "sim", "NAO"}}
    \cup {[session_id |-> Uuid4(0), question_id |-> PyNone, response |-> "SIM",
           response_time |-> 1],
          [session_id |-> Uuid4(0), question_id |-> "q1", response |-> PyNone,
           response_time |-> 1]}

SeqsUpTo(S, n) == UNION {[1..k -> S] : k \in 0..n}

calculate_hpo_stats_call ==
    /\ last' = [op |-> "calculate_hpo_stats", out |-> Ok,
                ret |-> calculate_hpo_stats(responses)]
    /\ cursor_obj' = "none"
    /\ UNCHANGED <<userVars, surveyVars, cacheVars, session_state, pageVars>>

calculate_lideranca_stats_call ==
    /\ last' = [op |-> "calculate_lideranca_stats", out |-> Ok,
                ret |-> calculate_lideranca_stats(lideranca_responses)]
    /\ cursor_obj' = "none"
    /\ UNCHANGED <<userVars, surveyVars, cacheVars, session_state, pageVars>>

\* ------------------------------------------------------------ specifications
\* the connection is open, the database is new, no browser session has run
Init ==
    /\ schema = {}
    /\ users = {}
    /\ user_serial = 1
    /\ responses = <<>>
    /\ lideranca_responses = <<>>
    /\ uuid_count = 0
    /\ cache_data = [fn \in CachedFunctions |-> <<>>]
    /\ session_state = [s \in Sessions |-> EmptySessionState]
    /\ loading = [s \in Sessions |-> Idle]
    /\ cursor_obj = "none"
    /\ widgets = [s \in Sessions |-> NoWidgets]
    /\ run = NoRun
    /\ init_runs = [s \in Sessions |-> NoInitRuns]
    /\ added = {}
    /\ cleared = FALSE
    /\ last = [op |-> "start", out |-> Ok, ret |-> TRUE]

InitDbOutcomes ==
    {NoCursor, CommitFails, Ok} \cup {ExecuteFails(k) : k \in 1..InitDbStatements}

WriteOutcomes ==
    {NoCursor, CommitFails, Ok} \cup {ExecuteFails(k) : k \in 1..3}

InitDbRun == \E s \in Sessions, out \in InitDbOutcomes :
                 init_db(s, out) /\ UNCHANGED pageVars

CheckLogin == \E u \in Usernames, p \in Passwords, out \in WriteOutcomes :
                 check_login_call(u, p, out) /\ UNCHANGED pageVars

Logout == \E s \in Sessions : logout(s)

AddUser == \E u \in Usernames, p \in Passwords, role \in RoleOptions,
              out \in WriteOutcomes : add_user(u, p, role, out) /\ UNCHANGED pageVars

DeleteUser == \E user_id \in 1..MaxUserId, out \in WriteOutcomes :
                  delete_user(user_id, out) /\ UNCHANGED pageVars

SaveHpo == \E in \in HpoInputs, out \in WriteOutcomes :
               save_hpo_response(in, out) /\ UNCHANGED pageVars

SaveLideranca == \E question_data \in LidInputs, out \in WriteOutcomes :
                    save_lideranca_response(question_data, out) /\ UNCHANGED pageVars

DeleteAll == \E out \in WriteOutcomes : delete_all_responses(out) /\ UNCHANGED pageVars

LoadHpo == \E out \in WriteOutcomes :
               cached_load("load_hpo_responses", out) /\ UNCHANGED pageVars

LoadLideranca == \E out \in WriteOutcomes :
                     cached_load("load_lideranca_responses", out) /\ UNCHANGED pageVars

Expire == \E fn \in CachedFunctions : expire(fn) /\ UNCHANGED pageVars

\* the credential store: bootstrap, lookup by credential, add, delete
Next ==
    \/ InitDbRun
    \/ CheckLogin
    \/ AddUser
    \/ DeleteUser

Spec == Init /\ [][Next]_vars

\* the survey repository and its cached loads, one call at a time
NextSurvey ==
    \/ InitDbRun
    \/ SaveHpo
    \/ SaveLideranca
    \/ DeleteAll
    \/ LoadHpo
    \/ LoadLideranca
    \/ Expire

SpecSurvey == Init /\ [][NextSurvey]_vars

\* every operation that writes, on one sample input each
WritesAddUser == \E out \in WriteOutcomes :
                     add_user("ana", "pw", "gestor", out) /\ UNCHANGED pageVars

WritesSaveHpo ==
    \E out \in WriteOutcomes :
        /\ save_hpo_response([scores |-> [i \in 1..14 |-> 5], comentario |-> "ok"], out)
        /\ UNCHANGED pageVars

WritesSaveLideranca ==
    \E out \in WriteOutcomes :
        save_lideranca_response(<<Ans2, Ans2, Ans1>>, out) /\ UNCHANGED pageVars

NextWrites ==
    \/ InitDbRun
    \/ WritesAddUser
    \/ DeleteUser
    \/ WritesSaveHpo
    \/ WritesSaveLideranca
    \/ DeleteAll

SpecWrites == Init /\ [][NextWrites]_vars

\* the survey repository with the script threads of the sessions running
\* next to each other: a cached load is two steps of its thread
LoadBegin == \E s \in Sessions, fn \in CachedFunctions, out \in WriteOutcomes :
                load_begin(s, fn, out) /\ UNCHANGED pageVars

LoadEnd == \E s \in Sessions : load_end(s) /\ UNCHANGED pageVars

NextThreads ==
    \/ InitDbRun
    \/ WritesSaveHpo
    \/ WritesSaveLideranca
    \/ DeleteAll
    \/ LoadBegin
    \/ LoadEnd
    \/ Expire

SpecThreads == Init /\ [][NextThreads]_vars

\* the pages: every call is made by a script run of a browser session
LoginInputs == {<<"admin", "admin123">>, <<"gestor", "gestor123">>, <<"ana", "pw">>}

AddUserInputs == {<<"ana", "pw", "administrador">>}

\* one raising statement, a raising commit, and no exception
PageOutcomes == {ExecuteFails(1), CommitFails, Ok}

\* no cursor, the second INSERT raising after the first has run, a raising
\* commit, and no exception
BootOutcomes == {NoCursor, ExecuteFails(InitDbStatements), CommitFails, Ok}

RunInitDb == \E s \in Sessions, out \in BootOutcomes :
                 run_init_db(s, out) /\ CountInitRun(s, out)

RunInitDbSample == \E s \in Sessions, out \in {CommitFails, Ok} :
                       run_init_db(s, out) /\ UNCHANGED init_runs

Login == \E s \in Sessions, in \in LoginInputs \cup {<<"", "pw">>},
            out \in PageOutcomes : login_page(s, in[1], in[2], out)

SelectPage == \E s \in Sessions, choice \in {"Questionario HPO", "Administracao"} :
                 select_page(s, choice)

Render == \E s \in Sessions : render(s)

SurveyHpoForm ==
    \E s \in Sessions, out \in PageOutcomes :
        survey_hpo_page(s, [scores |-> [i \in 1..14 |-> 5], comentario |-> "ok"], out)

AdminAddUser == \E s \in Sessions, in \in AddUserInputs, out \in PageOutcomes :
                   admin_add_user(s, in[1], in[2], in[3], out)

AdminDeleteUser == \E s \in Sessions, user_id \in 1..MaxUserId, out \in PageOutcomes :
                      admin_delete_user(s, user_id, out)

AdminTab2 == \E s \in Sessions, event \in {"delete_all_button", "confirm"},
                out \in PageOutcomes : admin_tab2(s, event, out)

\* the administration of users: login, navigation, tab1 of admin_page
NextAdmin ==
    \/ RunInitDbSample
    \/ Login
    \/ Logout
    \/ SelectPage
    \/ Render
    \/ AdminAddUser
    \/ AdminDeleteUser

SpecAdmin == Init /\ [][NextAdmin]_vars

\* the bootstrap next to logins, logouts and changes of table users
BootLogin == \E s \in Sessions, out \in PageOutcomes :
                login_page(s, "admin", "admin123", out)

BootAddUser == \E out \in PageOutcomes :
                  add_user("admin", "pw", "gestor", out) /\ UNCHANGED pageVars

BootDeleteUser == \E user_id \in 1..MaxUserId, out \in PageOutcomes :
                     delete_user(user_id, out) /\ UNCHANGED pageVars

NextBoot ==
    \/ RunInitDb
    \/ BootLogin
    \/ Logout
    \/ BootAddUser
    \/ BootDeleteUser

SpecBoot == Init /\ [][NextBoot]_vars

\* the survey and tab2 of admin_page
NextBulk ==
    \/ RunInitDbSample
    \/ Login
    \/ Logout
    \/ SelectPage
    \/ SurveyHpoForm
    \/ AdminTab2

SpecBulk == Init /\ [][NextBulk]_vars

\* the statistics functions on DataFrames with missing values and mixed case
InitStats ==
    /\ schema = AllTables
    /\ users = {}
    /\ user_serial = 1
    /\ \/ responses \in SeqsUpTo(StatsHpoRows, MaxHpoRows) /\ lideranca_responses = <<>>
       \/ responses = <<>> /\ lideranca_responses \in SeqsUpTo(StatsLidRows, MaxLidRows)
    /\ uuid_count = 0
    /\ cache_data = [fn \in CachedFunctions |-> <<>>]
    /\ session_state = [s \in Sessions |-> EmptySessionState]
    /\ loading = [s \in Sessions |-> Idle]
    /\ cursor_obj = "none"
    /\ widgets = [s \in Sessions |-> NoWidgets]
    /\ run = NoRun
    /\ init_runs = [s \in Sessions |-> NoInitRuns]
    /\ added = {}
    /\ cleared = FALSE
    /\ last = [op |-> "start", out |-> Ok, ret |-> TRUE]

NextStats ==
    \/ calculate_hpo_stats_call
    \/ calculate_lideranca_stats_call

SpecStats == InitStats /\ [][NextStats]_vars

\* ===================================================================== claims
Identity(r) == [id |-> r.id, username |-> r.username, role |-> r.role]

\* passwords tried against an account, beyond the one it was created with
TriedPasswords == Passwords \cup {"", "gestor123", "PW"}

\* C5: while an account created by add_user(u, p, role) is stored,
\* check_login(u, p) returns that row's {id, username, role} and
\* check_login(u, p') returns None for every p' with another hash; and a call
\* of check_login that returned an identity found a stored row with that
\* username and the hash of that password.
C5_LoginMatchesAddedAccounts ==
    /\ \A a \in added :
          /\ check_login(users, a.username, a.password) = Identity(a)
          /\ \A p \in TriedPasswords :
                hash_password(p) # hash_password(a.password)
                    => check_login(users, a.username, p) = None
    /\ (last.op = "check_login" /\ last.ret # None)
          => \E r \in users : /\ r.username = last.username
                              /\ r.password = hash_password(last.password)
                              /\ last.ret = Identity(r)

\* an account created by add_user has just logged in with its password
C5_Witness ==
    /\ last.op = "check_login"
    /\ \E a \in added : /\ a.username = last.username
                        /\ a.password = last.password
                        /\ last.ret = Identity(a)

UniqueUsernames == \A r1, r2 \in users : r1.username = r2.username => r1 = r2

\* C6: add_user with a username that is already stored returns False also
\* when nothing raises and leaves table users as it was; no two rows of
\* users ever share a username.
C6_DuplicateAddIsNoOp ==
    /\ []UniqueUsernames
    /\ [][(last'.op = "add_user" /\ \E r \in users : r.username = last'.username)
              => (last'.ret = FALSE /\ users' = users)]_vars

\* add_user was called for a stored username with another password or role,
\* nothing raised, and the stored row is still the only one of that name
C6_Witness ==
    /\ last.op = "add_user" /\ last.out = Ok /\ last.ret = FALSE
    /\ \E r \in users : /\ r.username = last.username
                        /\ \/ r.password # hash_password(last.password)
                           \/ r.role # last.role

\* the two roles of the data model
Roles == {"administrador", "gestor"}

\* C10: every row of users has one of the two roles, whatever init_db,
\* add_user and delete_user calls came before.
C10_RolesAreClosed == \A r \in users : r.role \in Roles

\* the table holds a seeded row and a row add_user created, after a delete
C10_Witness ==
    /\ added # {}
    /\ \E r \in users : r.username = "gestor"
    /\ last.op = "delete_user" /\ last.ret = TRUE

WriteOps == {"add_user", "delete_user", "save_hpo_response",
             "save_lideranca_response", "delete_all_responses"}

\* C1 (as claimed): a cached load that starts after a write to its table has
\* returned True never returns a result queried before that write.
C1_LoadReflectsReturnedWrites ==
    last.op \in CachedFunctions => ~last.stale

\* C2: a write operation in which a statement or the commit raises returns
\* False and leaves the three tables as they were before the call.
C2_FailedWriteChangesNothing ==
    [][(last'.op \in WriteOps /\ last'.out[1] \in {"execute", "commit"})
          => /\ last'.ret = FALSE
             /\ users' = users
             /\ responses' = responses
             /\ lideranca_responses' = lideranca_responses]_vars

\* the third INSERT of save_lideranca_response raised, after two had run,
\* while the table held the rows of an earlier submission
C2_Witness ==
    /\ last.op = "save_lideranca_response" /\ last.out = ExecuteFails(3)
    /\ last.ret = FALSE
    /\ Len(lideranca_responses) = 3

\* session ids of the rows stored in either response table
StoredSessionIds ==
    {responses[i]["session_id"] : i \in 1..Len(responses)}
        \cup {lideranca_responses[i].session_id : i \in 1..Len(lideranca_responses)}

LidQuestionUniquePerSession ==
    \A i, j \in 1..Len(lideranca_responses) :
        (/\ lideranca_responses[i].session_id = lideranca_responses[j].session_id
         /\ lideranca_responses[i].question_id = lideranca_responses[j].question_id)
            => i = j

\* the table after a successful save_lideranca_response(question_data)
LidSaved(question_data) ==
    LET old == lideranca_responses
        new == lideranca_responses'
        n == Len(question_data)
    IN /\ Len(new) = Len(old) + n
       /\ SubSeq(new, 1, Len(old)) = old
       /\ \A i \in 1..n :
             /\ new[Len(old) + i].question_id = <<"q1", "q2", "q3", "q4">>[i]
             /\ new[Len(old) + i].response = question_data[i].response
             /\ new[Len(old) + i].response_time = question_data[i].response_time
             /\ new[Len(old) + i].session_id = new[Len(old) + 1].session_id
             /\ new[Len(old) + i].session_id \notin StoredSessionIds

\* C3: a successful save_lideranca_response with N answers appends exactly N
\* rows, all with one session_id no stored row carries, with question_id
\* q1..qN in input order whatever question_id was supplied; question_id is
\* unique within a session_id in every state.
C3_LiderancaRowsPerSubmission ==
    /\ []LidQuestionUniquePerSession
    /\ [][\A question_data \in LidInputs :
              save_lideranca_response(question_data, Ok) => LidSaved(question_data)]_vars

\* a second submission, of three answers supplied as q7, q7, q1, was stored
C3_Witness ==
    /\ last.op = "save_lideranca_response" /\ last.ret = TRUE
    /\ last.in = <<Ans2, Ans2, Ans1>>
    /\ Len(lideranca_responses) > 3

\* the table and the load after a successful save_hpo_response(in)
HpoSaved(in) ==
    LET row == responses'[Len(responses')]
        sc == in.scores
    IN /\ responses' = Append(responses, row)
       /\ lideranca_responses' = lideranca_responses
       /\ row["a1"] = sc[1] /\ row["a2"] = sc[2] /\ row["b1"] = sc[3] /\ row["b2"] = sc[4]
       /\ row["c1"] = sc[5] /\ row["c2"] = sc[6] /\ row["d1"] = sc[7] /\ row["d2"] = sc[8]
       /\ row["e1"] = sc[9] /\ row["e2"] = sc[10] /\ row["f1"] = sc[11]
       /\ row["f2"] = sc[12] /\ row["g1"] = sc[13] /\ row["g2"] = sc[14]
       /\ row["comentario"] = in.comentario
       /\ row["session_id"] \notin StoredSessionIds
       /\ LoadResult("load_hpo_responses")' = <<row>> \o OrderByTimestampDesc(responses)

IsPrefix(a, b) == Len(a) <= Len(b) /\ SubSeq(b, 1, Len(a)) = a

\* C4: a successful save_hpo_response(scores, comment) makes exactly one new
\* row appear in load_hpo_responses(), with the 14 scores in the columns
\* a1..g2, the comment and a session_id no stored row has; it alters no
\* stored row, and only delete_all_responses removes response rows.
C4_HpoRowPerSubmission ==
    /\ [][\A in \in HpoInputs : save_hpo_response(in, Ok) => HpoSaved(in)]_vars
    /\ [][(~IsPrefix(responses, responses')
             \/ ~IsPrefix(lideranca_responses, lideranca_responses'))
            => (last'.op = "delete_all_responses" /\ last'.ret = TRUE)]_vars

\* a second response, with unequal scores, was stored next to the first
C4_Witness ==
    /\ last.op = "save_hpo_response" /\ last.ret = TRUE
    /\ last.in.comentario = ""
    /\ Len(responses) = 2
    /\ LoadResult("load_hpo_responses")[1]["a1"] # LoadResult("load_hpo_responses")[1]["a2"]

\* C7: from a delete_all_responses that returned True until the next
\* successful submit, load_hpo_responses() and load_lideranca_responses()
\* return empty results.
C7_LoadsEmptyAfterDeleteAll ==
    cleared =>
        /\ \A fn \in CachedFunctions : LoadResult(fn) = <<>>
        /\ last.op \in CachedFunctions => last.ret = <<>>

\* delete_all_responses returned True when both loads had non-empty results
\* in the cache
C7_Witness ==
    /\ cleared
    /\ last.op = "delete_all_responses" /\ last.ret = TRUE
    /\ last.had = CachedFunctions

\* the two columns of a domain of the questionnaire
DomainColumns(d) ==
    CASE d = "A" -> {"a1", "a2"} [] d = "B" -> {"b1", "b2"} [] d = "C" -> {"c1", "c2"}
      [] d = "D" -> {"d1", "d2"} [] d = "E" -> {"e1", "e2"} [] d = "F" -> {"f1", "f2"}
      [] d = "G" -> {"g1", "g2"}

\* the cells of a domain that hold a value
DomainCells(rows, d) ==
    {c \in (1..Len(rows)) \X DomainColumns(d) : rows[c[1]][c[2]] # NaN}

RECURSIVE SumCells(_, _)
SumCells(rows, cells) ==
    IF cells = {} THEN 0
    ELSE LET c == CHOOSE c \in cells : TRUE
         IN rows[c[1]][c[2]] + SumCells(rows, cells \ {c})

\* C8: calculate_hpo_stats(rows) has an entry for a domain exactly when one
\* of the domain's two columns holds a value in some row; count is the
\* number of values of both columns, min and max the smallest and largest
\* of them, and mean times count their sum.
C8_HpoStatsPooled ==
    last.op = "calculate_hpo_stats" =>
        \A d \in {"A", "B", "C", "D", "E", "F", "G"} :
            LET cells == DomainCells(responses, d)
                values == {responses[c[1]][c[2]] : c \in cells}
            IN /\ d \in DOMAIN last.ret <=> cells # {}
               /\ cells # {} =>
                     /\ last.ret[d].count = Cardinality(cells)
                     /\ last.ret[d].min \in values
                     /\ \A v \in values : last.ret[d].min <= v /\ v <= last.ret[d].max
                     /\ last.ret[d].max \in values
                     /\ last.ret[d].mean.num * last.ret[d].count
                            = SumCells(responses, cells) * last.ret[d].mean.den

\* A values 4, 5 in one row and 2, 3 in the other: mean 3.5 (= 7/2), count 4,
\* min 2, max 5; domain B, without data, has no entry
C8_Witness ==
    /\ last.op = "calculate_hpo_stats"
    /\ Len(responses) = 2
    /\ responses[1]["a1"] = 4 /\ responses[1]["a2"] = 5
    /\ responses[2]["a1"] = 2 /\ responses[2]["a2"] = 3
    /\ last.ret["A"].count = 4 /\ last.ret["A"].min = 2 /\ last.ret["A"].max = 5
    /\ 2 * last.ret["A"].mean.num = 7 * last.ret["A"].mean.den
    /\ "B" \notin DOMAIN last.ret

\* the key an answer is counted under: its text in upper case
AnswerKey(v) ==
    CASE v \in {"SIM", "sim"} -> "SIM" [] v = "NAO" -> "NAO" [] v = PyNone -> "NONE"

RECURSIVE SumCounts(_, _)
SumCounts(f, keys) ==
    IF keys = {} THEN 0
    ELSE LET k == CHOOSE k \in keys : TRUE IN f[k] + SumCounts(f, keys \ {k})

\* C9: calculate_lideranca_stats(rows) has one entry per question_id found
\* in rows, over all sessions; total is the number of rows of that question,
\* distribution maps each answer in upper case to the number of its
\* occurrences, whatever their letter case, and the counts add up to total.
C9_LiderancaStatsPerQuestion ==
    last.op = "calculate_lideranca_stats" =>
        LET rows == lideranca_responses
            of(q) == {i \in 1..Len(rows) : rows[i].question_id = q}
        IN /\ DOMAIN last.ret = {rows[i].question_id : i \in 1..Len(rows)} \ {PyNone}
           /\ \A q \in DOMAIN last.ret :
                 LET dist == last.ret[q].distribution
                 IN /\ last.ret[q].total = Cardinality(of(q))
                    /\ DOMAIN dist = {AnswerKey(rows[i].response) : i \in of(q)}
                    /\ \A v \in DOMAIN dist :
                          dist[v] = Cardinality({i \in of(q) :
                                                    AnswerKey(rows[i].response) = v})
                    /\ SumCounts(dist, DOMAIN dist) = last.ret[q].total

\* answers SIM, sim, NAO to q1: total 3, distribution SIM 2, NAO 1
C9_Witness ==
    /\ last.op = "calculate_lideranca_stats"
    /\ Len(lideranca_responses) = 3
    /\ \A i \in 1..3 : lideranca_responses[i].question_id = "q1"
    /\ lideranca_responses[1].response = "SIM"
    /\ lideranca_responses[2].response = "sim"
    /\ lideranca_responses[3].response = "NAO"
    /\ last.ret["q1"].total = 3
    /\ last.ret["q1"].distribution = [v \in {"SIM", "NAO"} |-> IF v = "SIM" THEN 2 ELSE 1]

\* a row of users as default_users lists it
Seed(r) == [username |-> r.username, password |-> r.password, role |-> r.role]

\* after a successful init_db, every seeded username is stored
SeededAfterInit ==
    (last.op = "init_db" /\ last.ret)
        => \A i \in DOMAIN default_users :
              \E r \in users : r.username = default_users[i].username

\* init_db leaves every stored row as it is; a row it adds is one of
\* default_users, with the default hash and role, under a username no row
\* had, and it is added by a run that committed
SeedsOnlyAbsent ==
    last'.op = "init_db"
        => /\ users \subseteq users'
           /\ \A r \in users' \ users :
                 /\ last'.ret
                 /\ \E i \in DOMAIN default_users : Seed(r) = default_users[i]
                 /\ ~\E x \in users : x.username = r.username

\* C11 (as claimed): a successful init_db leaves rows named admin and gestor;
\* it inserts a seeded account only when its username is absent and changes
\* no stored row; and no session runs init_db's database work (its
\* statements) more than once between two clearings of its state.
C11_AsClaimed ==
    /\ []SeededAfterInit
    /\ [][SeedsOnlyAbsent]_vars
    /\ [](\A s \in Sessions : init_runs[s].work <= 1)

\* C11 (amended): as above, but the once-per-session part holds of the runs
\* that commit: no session commits init_db's work more than once between two
\* clearings of its state (a run that raises is rolled back, leaves
\* db_initialized unset and is repeated by the session's next run).
C11_SeedingCommittedOncePerSession ==
    /\ []SeededAfterInit
    /\ [][SeedsOnlyAbsent]_vars
    /\ [](\A s \in Sessions : init_runs[s].commits <= 1)

\* init_db has just committed in a session whose earlier runs of it had
\* raised, while user admin was stored with another password: that row is
\* kept, and the missing gestor is seeded under a new id
C11_Witness ==
    /\ last.op = "init_db" /\ last.ret
    /\ init_runs[run.s] = [work |-> 2, commits |-> 1]
    /\ \E r \in users : r.username = "admin" /\ r.password = hash_password("pw")
    /\ \E r \in users : r.username = "gestor" /\ r.id > Len(default_users)

\* C12 (as claimed): whichever of init_db, check_login, add_user, delete_user,
\* save_hpo_response, save_lideranca_response and delete_all_responses has
\* returned last, on whichever exit path, the cursor it got from
\* get_db_cursor is closed.
C12_CursorClosedOnReturn == cursor_obj # "open"

\* C13: a delete_user(id) that returns True removes exactly the row with that
\* id, whoever is logged in under that row's username; and a session's
\* administration page calls delete_user only for a row whose username is
\* not the username the session is logged in as.
C13_SelfDeleteGuardedByCaller ==
    [][last'.op = "delete_user"
          => /\ last'.ret => users' = {r \in users : r.id # last'.user_id}
             /\ ~last'.ret => users' = users
             /\ \A r \in users :
                   r.id = last'.user_id
                       => r.username # session_state[run'.s].user.username]_vars

\* the page of one administrator has just deleted the row another session
\* is logged in as
C13_Witness ==
    /\ last.op = "delete_user" /\ last.ret /\ run.widget = "del"
    /\ \E s \in Sessions : /\ s # run.s
                             /\ session_state[s].logged_in
                             /\ session_state[s].user.id = last.user_id
                             /\ ~\E r \in users : r.id = last.user_id

AdminOps == {"add_user", "delete_user", "delete_all_responses"}

\* C14: a session becomes logged in only in a run of its own in which
\* check_login returned a user, which it then holds; add_user, delete_user
\* and delete_all_responses are called only by runs of a session that is
\* logged in with role administrador; and a logout leaves the session not
\* logged in and without a user.
C14_AccessControl ==
    /\ [](\A s \in Sessions : session_state[s].logged_in
                                  => session_state[s].user # None)
    /\ [][\A s \in Sessions :
             (~session_state[s].logged_in /\ session_state'[s].logged_in)
                 => /\ last'.op = "check_login" /\ last'.ret # None
                    /\ run'.s = s
                    /\ session_state'[s].user = last'.ret]_vars
    /\ [][last'.op \in AdminOps
             => /\ run'.s \in Sessions
                /\ session_state[run'.s].logged_in
                /\ session_state[run'.s].user.role = "administrador"]_vars
    /\ [][last'.op = "logout"
             => /\ ~session_state'[run'.s].logged_in
                /\ session_state'[run'.s].user = None]_vars

\* an administrator's page has just added a user, while another session is
\* logged in as a gestor
C14_Witness ==
    /\ last.op = "add_user" /\ last.ret /\ run.widget = "add_user_form"
    /\ session_state[run.s].user.role = "administrador"
    /\ \E s \in Sessions : /\ session_state[s].logged_in
                             /\ session_state[s].user.role = "gestor"

\* C15 (as claimed): when the run that a tick of the checkbox "Confirmar
\* exclusão de TODOS os dados HPO" triggers has finished, after a click on
\* "Apagar Todos os Dados HPO" had rendered that checkbox, delete_all_responses
\* has been called, and where it returned True both response tables are
\* empty.
C15_BulkClearReachable ==
    run.widget = "confirm"
        => /\ last.op = "delete_all_responses"
           /\ last.ret => (responses = <<>> /\ lideranca_responses = <<>>)


=============================================================================
